---- MODULE Spec2Model ----
(***************************************************************************)
(* Model of funciones/pdfconverter.py: the fallback pipeline pdf_to_csv    *)
(* (tables, then text + regex, then LLM), the table cleaner clean_df, the  *)
(* text parser parse_text_to_csv and the line classifier parse_line.       *)
(*                                                                         *)
(* Strings are sequences of one-character strings, so that the regular     *)
(* expressions of the source are matched character by character.  Floats   *)
(* are integers counting hundredths; an absent float (None / NaN) is the   *)
(* empty sequence and a present one a one-element sequence.                *)
(***************************************************************************)
EXTENDS Integers, Sequences, FiniteSets, TLC

(***************************************************************************)
(* Characters and elementary string functions (Python str / re).           *)
(***************************************************************************)
Digits == {"0", "1", "2", "3", "4", "5", "6", "7", "8", "9"}

IsDigit(c) == c \in Digits

\* \s of the regular expressions and the characters str.strip removes
IsSpace(c) == c \in {" ", "\t", "\n", "\r"}

DigitVal(c) ==
  CASE c = "0" -> 0 [] c = "1" -> 1 [] c = "2" -> 2 [] c = "3" -> 3
    [] c = "4" -> 4 [] c = "5" -> 5 [] c = "6" -> 6 [] c = "7" -> 7
    [] c = "8" -> 8 [] c = "9" -> 9

\* s[i:] of Python with a 1-based i
From(s, i) == SubSeq(s, i, Len(s))

\* Op(v) with v computed once, as the value of a local variable is: TLC
\* may evaluate the argument of an operator again at each of its uses
OnValue(v, Op(_)) == CHOOSE y \in {Op(x) : x \in {v}} : TRUE

\* sub in s
Contains(s, sub) ==
  \E i \in 1..(Len(s) - Len(sub) + 1) : SubSeq(s, i, i + Len(sub) - 1) = sub

\* index after the run of blanks that starts at i (i itself when there is none)
RECURSIVE SkipSpaces(_, _)
SkipSpaces(s, i) ==
  IF i <= Len(s) /\ IsSpace(s[i]) THEN SkipSpaces(s, i + 1) ELSE i

\* index after the run of digits that starts at i (i itself when there is none)
RECURSIVE SkipDigits(_, _)
SkipDigits(s, i) ==
  IF i <= Len(s) /\ IsDigit(s[i]) THEN SkipDigits(s, i + 1) ELSE i

\* s[i], s[i+1], ..., s[i+n-1] exist and are digits
DigitsAt(s, i, n) ==
  /\ i + n - 1 <= Len(s)
  /\ \A k \in i..(i + n - 1) : IsDigit(s[k])

RECURSIVE rstrip(_)
rstrip(s) ==
  IF s # <<>> /\ IsSpace(s[Len(s)]) THEN rstrip(SubSeq(s, 1, Len(s) - 1)) ELSE s

strip(s) == rstrip(From(s, SkipSpaces(s, 1)))

\* s.replace(old, new) for a one-character old; new is a string
RECURSIVE replace(_, _, _)
replace(s, old, new) ==
  IF s = <<>> THEN <<>>
  ELSE (IF Head(s) = old THEN new ELSE <<Head(s)>>) \o replace(Tail(s), old, new)

\* value of a string of digits
RECURSIVE DigitsValue(_)
DigitsValue(s) ==
  IF s = <<>> THEN 0 ELSE 10 * DigitsValue(SubSeq(s, 1, Len(s) - 1)) + DigitVal(s[Len(s)])

\* float(s) in hundredths for the decimal literals -?d+ and -?d+.d{0,2};
\* <<>> when s is no such literal (float raises, to_numeric coerces to NaN)
ParseFloat(s) ==
  LET neg  == s # <<>> /\ s[1] = "-"
      i0   == IF neg THEN 2 ELSE 1
      i1   == SkipDigits(s, i0)
      int  == DigitsValue(SubSeq(s, i0, i1 - 1))
      frac == From(s, i1 + 1)
      sign == IF neg THEN -1 ELSE 1
  IN  IF i1 = i0 THEN <<>>
      ELSE IF i1 > Len(s) THEN <<sign * 100 * int>>
      ELSE IF s[i1] # "." \/ Len(frac) > 2 \/ ~DigitsAt(frac, 1, Len(frac)) THEN <<>>
      ELSE <<sign * (100 * int + (IF Len(frac) = 0 THEN 0
                                  ELSE IF Len(frac) = 1 THEN 10 * DigitsValue(frac)
                                  ELSE DigitsValue(frac)))>>

(***************************************************************************)
(* parse_line: the regular expressions.                                    *)
(***************************************************************************)
\* end of the groups (?:\.\d{3})* matched greedily from i
RECURSIVE SkipGroups(_, _)
SkipGroups(s, i) ==
  IF i <= Len(s) /\ s[i] = "." /\ DigitsAt(s, i + 1, 3) THEN SkipGroups(s, i + 4) ELSE i

\* re.match(num_pattern, s[i:]): the index after the match, 0 when none
NumMatchEnd(s, i) ==
  LET i0 == IF i <= Len(s) /\ s[i] = "-" THEN i + 1 ELSE i
      i1 == SkipDigits(s, i0)
      i2 == SkipGroups(s, i1)
  IN  IF i1 > i0 /\ i2 <= Len(s) /\ s[i2] = "," /\ DigitsAt(s, i2 + 1, 2)
      THEN i2 + 3 ELSE 0

\* re.findall(num_pattern, s[i:])
RECURSIVE findall(_, _)
findall(s, i) ==
  IF i > Len(s) THEN <<>>
  ELSE LET e == NumMatchEnd(s, i)
       IN  IF e > 0 THEN <<SubSeq(s, i, e - 1)>> \o findall(s, e)
           ELSE findall(s, i + 1)

\* float(tok.replace('.', '').replace(',', '.')), in hundredths
Amount(tok) == ParseFloat(replace(replace(tok, ".", <<>>), ",", <<".">>))[1]

\* (\d{2})\s+(\d{2})\s+(\d{2}) matched at i: <<group1, group2, group3, end>>
\* with end the index after the match, or <<>>
DateAt(s, i) ==
  LET j == SkipSpaces(s, i + 2)
      k == SkipSpaces(s, j + 2)
  IN  IF /\ DigitsAt(s, i, 2) /\ j > i + 2
         /\ DigitsAt(s, j, 2) /\ k > j + 2
         /\ DigitsAt(s, k, 2)
      THEN <<SubSeq(s, i, i + 1), SubSeq(s, j, j + 1), SubSeq(s, k, k + 1), k + 2>>
      ELSE <<>>

\* re.search(r'(\d{2})\s+(\d{2})\s+(\d{2})', s): the leftmost match or <<>>
DateSearch(s) ==
  LET starts == {i \in 1..Len(s) : DateAt(s, i) # <<>>}
  IN  IF starts = {} THEN <<>>
      ELSE DateAt(s, CHOOSE i \in starts : \A j \in starts : i <= j)

\* the 4 of \s{4,} in trans_pattern
MinGap == 4

\* the lookahead (?=\s{4,}num_pattern) at index p
LookAhead(s, p) ==
  LET e == SkipSpaces(s, p)
  IN  e - p >= MinGap /\ NumMatchEnd(s, e) > 0

\* the index after the non-greedy (?P<desc>.+?) that starts at ds: the first
\* index beyond ds where the lookahead holds, 0 when there is none
DescEnd(s, ds) ==
  LET ends == {p \in (ds + 1)..Len(s) : LookAhead(s, p)}
  IN  IF ends = {} THEN 0 ELSE CHOOSE p \in ends : \A r \in ends : p <= r

\* ways of matching \s+(?P<code>\d{4})?\s+ from index q, the index after the
\* date, that leave a description: <<a, hasCode, b>> with a and b the numbers
\* of blanks taken by the first and by the second \s+
TransCands(s, q) ==
  LET w == SkipSpaces(s, q) - q
      CodeEnd(a, hc) == IF hc THEN q + a + 4 ELSE q + a
  IN  UNION {{<<a, hc, b>> : b \in {b \in 1..(SkipSpaces(s, CodeEnd(a, hc)) - CodeEnd(a, hc)) :
                                     DescEnd(s, CodeEnd(a, hc) + b) > 0}} :
             <<a, hc>> \in {x \in (1..w) \X BOOLEAN : x[2] => DigitsAt(s, q + x[1], 4)}}

\* order in which the backtracking matcher tries them: the greedy \s+ longest
\* first, the optional group present first
TriedBefore(x, y) ==
  \/ x[1] > y[1]
  \/ x[1] = y[1] /\ x[2] /\ ~y[2]
  \/ x[1] = y[1] /\ x[2] = y[2] /\ x[3] > y[3]

\* re.match(trans_pattern, s): [ok, day, month, year, code, desc, end], end
\* being the index after the match (the lookahead consumes nothing)
TransMatch(s) ==
  LET d == DateAt(s, SkipSpaces(s, 1))
  IN  IF d = <<>> THEN [ok |-> FALSE]
      ELSE OnValue(TransCands(s, d[4]), LAMBDA cands :
             IF cands = {} THEN [ok |-> FALSE]
             ELSE OnValue(CHOOSE x \in cands : \A y \in cands \ {x} : TriedBefore(x, y),
                          LAMBDA m :
                    LET cs == d[4] + m[1]
                        ds == (IF m[2] THEN cs + 4 ELSE cs) + m[3]
                        de == DescEnd(s, ds)
                    IN  [ok |-> TRUE, day |-> d[1], month |-> d[2], year |-> d[3],
                         code |-> IF m[2] THEN SubSeq(s, cs, cs + 3) ELSE <<>>,
                         desc |-> SubSeq(s, ds, de - 1), end |-> de]))

\* (\d+/\d+) matched at i: the index after the match, 0 when none
CuotaEnd(s, i) ==
  LET j == SkipDigits(s, i)
  IN  IF j > i /\ j <= Len(s) /\ s[j] = "/" /\ DigitsAt(s, j + 1, 1)
      THEN SkipDigits(s, j + 1) ELSE 0

\* re.search(r'(\d+/\d+)', s): group 1 of the leftmost match, <<>> when none
CuotaSearch(s) ==
  LET starts == {i \in 1..Len(s) : CuotaEnd(s, i) > 0}
      i0     == CHOOSE i \in starts : \A j \in starts : i <= j
  IN  IF starts = {} THEN <<>> ELSE SubSeq(s, i0, CuotaEnd(s, i0) - 1)

\* re.sub(r'\s*' + re.escape(lit) + r'\s*', '', s[i:]): every occurrence of
\* lit goes, with the blanks around it
RECURSIVE RemoveAll(_, _, _)
RemoveAll(s, i, lit) ==
  IF i > Len(s) THEN <<>>
  ELSE LET k == SkipSpaces(s, i)
       IN  IF k + Len(lit) - 1 <= Len(s) /\ SubSeq(s, k, k + Len(lit) - 1) = lit
           THEN RemoveAll(s, SkipSpaces(s, k + Len(lit)), lit)
           ELSE <<s[i]>> \o RemoveAll(s, i + 1, lit)

\* if len(line) < 20: return None
MinLineLen == 20

(***************************************************************************)
(* parse_line: the rules.                                                  *)
(***************************************************************************)
\* the literal markers searched in the line
MarkSaldoAnterior ==
  <<"S", "A", "L", "D", "O", " ", "D", "E", "L", " ", "E", "S", "T", "A",
    "D", "O", " ", "D", "E", " ", "C", "U", "E", "N", "T", "A", " ", "A",
    "N", "T", "E", "R", "I", "O", "R">>
MarkPagos ==
  <<"P", "A", "G", "O", "S">>
MarkSeguro ==
  <<"S", "E", "G", "U", "R", "O", " ", "D", "E", " ", "V", "I", "D", "A",
    " ", "S", "O", "B", "R", "E", " ", "S", "A", "L", "D", "O">>
MarkSaldoContado ==
  <<"S", "A", "L", "D", "O", " ", "C", "O", "N", "T", "A", "D", "O">>

\* the descriptions given to the special records
DescSaldoAnterior ==
  <<"S", "A", "L", "D", "O", " ", "A", "N", "T", "E", "R", "I", "O", "R">>
DescSeguro ==
  <<"S", "E", "G", "U", "R", "O", " ", "D", "E", " ", "V", "I", "D", "A">>
DescSaldoFinal ==
  <<"S", "A", "L", "D", "O", " ", "F", "I", "N", "A", "L">>

\* the value of a rule that returns nothing; parse_line then goes on with the
\* statements that follow, and returns None when it reaches its end
NoMatch == [ok |-> FALSE]

Record(fecha, codigo, descripcion, cuotas, uyu, usd, tipo) ==
  [ok |-> TRUE, Fecha |-> fecha, Codigo |-> codigo, Descripcion |-> descripcion,
   Cuotas |-> cuotas, Monto_UYU |-> uyu, Monto_USD |-> usd, Tipo |-> tipo]

\* if 'SALDO DEL ESTADO DE CUENTA ANTERIOR' in line: ...
RuleSaldoAnterior(line) ==
  LET amounts == findall(line, 1)
      n       == Len(amounts)
  IN  IF Contains(line, MarkSaldoAnterior) /\ n >= 2
      THEN Record(<<>>, <<>>, DescSaldoAnterior, <<>>,
                  Amount(amounts[n - 1]), <<Amount(amounts[n])>>, "Saldo")
      ELSE NoMatch

\* if 'PAGOS' in line: ...
RulePagos(line) ==
  LET date_match == DateSearch(line)
      amounts    == findall(line, 1)
      n          == Len(amounts)
  IN  IF Contains(line, MarkPagos) /\ date_match # <<>> /\ n >= 2
      THEN Record(date_match[1] \o <<"/">> \o date_match[2] \o <<"/">> \o date_match[3],
                  <<>>, MarkPagos, <<>>,
                  Amount(amounts[n - 1]), <<Amount(amounts[n])>>, "Pago")
      ELSE NoMatch

\* RuleSeguro taking the last two amounts, as the other special rules do
RuleSeguroLastTwo(line) ==
  LET amounts == findall(line, 1)
      n       == Len(amounts)
  IN  IF Contains(line, MarkSeguro) /\ n >= 2
      THEN Record(<<>>, <<>>, DescSeguro, <<>>,
                  Amount(amounts[n - 1]), <<Amount(amounts[n])>>, "Cargo")
      ELSE NoMatch

\* if 'SEGURO DE VIDA SOBRE SALDO' in line: ...
RuleSeguro(line) ==
  LET amounts == findall(line, 1)
  IN  IF Contains(line, MarkSeguro) /\ Len(amounts) >= 2
      THEN Record(<<>>, <<>>, DescSeguro, <<>>,
                  Amount(amounts[1]), <<Amount(amounts[2])>>, "Cargo")
      ELSE NoMatch

\* if 'SALDO CONTADO' in line: ...
RuleSaldoContado(line) ==
  LET amounts == findall(line, 1)
      n       == Len(amounts)
  IN  IF Contains(line, MarkSaldoContado) /\ n >= 2
      THEN Record(<<>>, <<>>, DescSaldoFinal, <<>>,
                  Amount(amounts[n - 1]), <<Amount(amounts[n])>>, "Saldo")
      ELSE NoMatch

\* match = re.match(trans_pattern, line); if match: ...
RuleTransaccion(line) ==
  OnValue(TransMatch(line), LAMBDA match :
    IF ~match.ok THEN NoMatch
    ELSE
      OnValue(strip(match.desc), LAMBDA desc0 :
      OnValue(CuotaSearch(desc0), LAMBDA cuotas :
      OnValue(strip(From(line, match.end)), LAMBDA remaining :
      OnValue(findall(remaining, 1), LAMBDA amounts :
        LET desc == IF cuotas # <<>> THEN strip(RemoveAll(desc0, 1, cuotas)) ELSE desc0
            n    == Len(amounts)
        IN  IF n = 0 THEN NoMatch
            ELSE Record(match.day \o <<"/">> \o match.month \o <<"/">> \o match.year,
                        match.code, desc, cuotas,
                        Amount(amounts[n]),
                        IF n > 1 THEN <<Amount(amounts[n - 1])>> ELSE <<>>,
                        "Transaccion"))))))

\* the rules are statements of one function body, one after the other: a rule
\* whose inner condition fails returns nothing and the next statement runs
parse_line(line0) ==
  OnValue(rstrip(line0), LAMBDA line :
    IF Len(line) < MinLineLen THEN NoMatch
    ELSE OnValue(RuleSaldoAnterior(line), LAMBDA r1 : IF r1.ok THEN r1 ELSE
         OnValue(RulePagos(line), LAMBDA r2 : IF r2.ok THEN r2 ELSE
         OnValue(RuleSeguro(line), LAMBDA r3 : IF r3.ok THEN r3 ELSE
         OnValue(RuleSaldoContado(line), LAMBDA r4 : IF r4.ok THEN r4 ELSE
         RuleTransaccion(line))))))

(***************************************************************************)
(* The lines the line classifier is applied to.                            *)
(***************************************************************************)
\* most blanks between the date, the code and the description
MaxBlanks == 2

\* most numeric tokens at the end of a line
MaxAmounts == 3

Blanks(n) == [i \in 1..n |-> " "]

Tok1 ==
  <<"1", ".", "5", "0", "0", ",", "0", "0">>
Tok2 ==
  <<"-", "1", "2", ",", "0", "0">>
Tok3 ==
  <<"5", ",", "0", "0">>
Tok4 ==
  <<"1", ".", "2", "3", "4", ".", "5", "6", "7", ",", "8", "9">>
TxtNetflix ==
  <<"N", "E", "T", "F", "L", "I", "X", ".", "C", "O", "M">>
TxtShopCuotas ==
  <<"S", "H", "O", "P", " ", "3", "/", "6">>
TxtCuotasTwice ==
  <<"T", "I", "E", "N", "D", "A", " ", "2", "/", "1", "2", " ", "S", "U",
    "R", " ", "2", "/", "1", "2">>
TxtShort ==
  <<"A", "B">>
TxtPagosSaldo ==
  <<"P", "A", "G", "O", "S", " ", "S", "A", "L", "D", "O", " ", "C", "O",
    "N", "T", "A", "D", "O">>

AmountPool == <<Tok1, Tok2, Tok3, Tok4>>

\* the first n tokens of the pool, columns MinGap blanks apart
RECURSIVE AmountColumns(_)
AmountColumns(n) ==
  IF n = 0 THEN <<>>
  ELSE IF n = 1 THEN AmountPool[1]
  ELSE AmountColumns(n - 1) \o Blanks(MinGap) \o AmountPool[((n - 1) % 4) + 1]

Dates ==
  {<<>>} \cup {<<"1", "5">> \o Blanks(k) \o <<"0", "3", " ", "2", "4">> : k \in 1..MaxBlanks}

Codes ==
  {<<>>} \cup {<<"1", "2", "3", "4">> \o Blanks(k) : k \in 1..MaxBlanks}

Descriptions ==
  {TxtNetflix, TxtShopCuotas, TxtCuotasTwice, TxtShort, TxtPagosSaldo,
   MarkSaldoAnterior, MarkPagos, MarkSeguro, MarkSaldoContado}

\* the columns of a line: the date, the blanks after it, the code with the
\* blanks after it, the description, the blanks before the amounts, the
\* number of amounts, the blanks at the end
LineParts ==
  [date : Dates, k : 1..MaxBlanks, code : Codes, desc : Descriptions,
   gap : {1, MinGap}, n : 0..MaxAmounts, trail : {0, 2}]

BuildLine(p) ==
  p.date \o Blanks(p.k) \o p.code \o p.desc \o Blanks(p.gap) \o
  AmountColumns(p.n) \o Blanks(p.trail)

(***************************************************************************)
(* parse_text_to_csv and the CSV it writes.                                *)
(***************************************************************************)
\* text.split('\n')
RECURSIVE split(_)
split(text0) ==
  OnValue(text0, LAMBDA text :
    LET nls == {i \in 1..Len(text) : text[i] = "\n"}
        i0  == CHOOSE i \in nls : \A j \in nls : i <= j
    IN  IF nls = {} THEN <<text>>
        ELSE <<SubSeq(text, 1, i0 - 1)>> \o split(From(text, i0 + 1)))

\* '\n'.join(lines)
RECURSIVE join(_)
join(lines) ==
  IF lines = <<>> THEN <<>>
  ELSE IF Len(lines) = 1 THEN lines[1]
  ELSE lines[1] \o <<"\n">> \o join(Tail(lines))

DigitChar(n) ==
  CASE n = 0 -> "0" [] n = 1 -> "1" [] n = 2 -> "2" [] n = 3 -> "3"
    [] n = 4 -> "4" [] n = 5 -> "5" [] n = 6 -> "6" [] n = 7 -> "7"
    [] n = 8 -> "8" [] n = 9 -> "9"

\* str(n) for a natural number n
RECURSIVE NatStr(_)
NatStr(n) ==
  IF n < 10 THEN <<DigitChar(n)>> ELSE NatStr(n \div 10) \o <<DigitChar(n % 10)>>

\* the text to_csv writes for a float of v hundredths: 150000 gives 1500.0,
\* 1250 gives 12.5, -1234 gives -12.34
FloatStr(v) ==
  LET a == IF v < 0 THEN -v ELSE v
      f == a % 100
  IN  (IF v < 0 THEN <<"-">> ELSE <<>>) \o NatStr(a \div 100) \o <<".">> \o
      (IF f % 10 = 0 THEN <<DigitChar(f \div 10)>>
       ELSE <<DigitChar(f \div 10), DigitChar(f % 10)>>)

\* df.reindex(columns=[...]): the header of the CSV
Header == <<"Fecha", "Codigo", "Descripcion", "Cuotas", "Monto_UYU", "Monto_USD", "Tipo">>

\* one row of df.to_csv(index=False) after df['Monto_USD'].fillna('')
CsvRow(r) ==
  <<r.Fecha, r.Codigo, r.Descripcion, r.Cuotas, FloatStr(r.Monto_UYU),
    IF r.Monto_USD = <<>> THEN <<>> ELSE FloatStr(r.Monto_USD[1]), r.Tipo>>

\* if len(transactions) < 3: return None
MinRecords == 3

\* the value of a function that returns None instead of a CSV text
None == <<>>

\* Collect putting each record in front of the earlier ones
RECURSIVE CollectReversed(_)
CollectReversed(lines) ==
  IF lines = <<>> THEN <<>>
  ELSE OnValue(parse_line(Head(lines)), LAMBDA parsed :
         CollectReversed(Tail(lines)) \o (IF parsed.ok THEN <<parsed>> ELSE <<>>))

\* for line in lines: parsed = parse_line(line); if parsed: append
RECURSIVE Collect(_)
Collect(lines) ==
  IF lines = <<>> THEN <<>>
  ELSE OnValue(parse_line(Head(lines)), LAMBDA parsed :
         (IF parsed.ok THEN <<parsed>> ELSE <<>>) \o Collect(Tail(lines)))

\* the CSV is the sequence of its rows, the header first
parse_text_to_csv(text) ==
  OnValue(SelectSeq(split(text), LAMBDA l : strip(l) # <<>>), LAMBDA lines :
  OnValue(Collect(lines), LAMBDA transactions :
    IF Len(transactions) < MinRecords THEN None
    ELSE <<Header>> \o [i \in 1..Len(transactions) |-> CsvRow(transactions[i])]))

\* len(pd.read_csv(BytesIO(csv.encode()))): the rows below the header
ReadCsvLen(csv) == Len(csv) - 1

(***************************************************************************)
(* clean_df.  A data frame is the sequence of its rows and a row the       *)
(* sequence of its cells, one for each column.                             *)
(***************************************************************************)
\* the cells: a text, a float (hundredths), or the missing value (None, NaN)
Str(s) == [k |-> "str", s |-> s]
Num(v) == [k |-> "num", v |-> v]
NA == [k |-> "na"]

\* re.match(r'^-?\d+[.,]?\d*$', s)
LooksNumeric(s) ==
  LET i0 == IF s # <<>> /\ s[1] = "-" THEN 2 ELSE 1
      i1 == SkipDigits(s, i0)
      i2 == IF i1 <= Len(s) /\ s[i1] \in {".", ","} THEN i1 + 1 ELSE i1
  IN  i1 > i0 /\ SkipDigits(s, i2) = Len(s) + 1

NumCols(df) == IF df = <<>> THEN 0 ELSE Len(df[1])

\* the columns the mask col.str.match(..., na=False) ... .any() selects
numeric_cols(df) ==
  {c \in 1..NumCols(df) :
     \E r \in 1..Len(df) : df[r][c].k = "str" /\ LooksNumeric(df[r][c].s)}

\* pd.to_numeric(cell.str.replace(',', '.').str.replace('.', '', regex=False),
\*               errors='coerce') for one cell
Coerce(cell) ==
  LET v == ParseFloat(replace(replace(cell.s, ",", <<".">>), ".", <<>>))
  IN  IF cell.k = "str" /\ v # <<>> THEN Num(v[1]) ELSE NA

\* the 2 of df.dropna(thresh=2)
Thresh == 2

NonMissing(row) == Cardinality({c \in 1..Len(row) : row[c].k # "na"})

\* the loop of clean_df: df[col] = pd.to_numeric(...) for col in numeric_cols
CoerceColumns(d) ==
  [r \in 1..Len(d) |->
     [c \in 1..Len(d[r]) |-> IF c \in numeric_cols(d) THEN Coerce(d[r][c]) ELSE d[r][c]]]

\* df.dropna(thresh=2)
dropna(d) == SelectSeq(d, LAMBDA row : NonMissing(row) >= Thresh)

clean_df(d) == dropna(CoerceColumns(d))


(***************************************************************************)
(* pdf_to_csv: the document and the stages.                                *)
(***************************************************************************)
VARIABLES
  file_path,      \* the argument of pdf_to_csv
  exists,         \* os.path.exists(file_path)
  pages,          \* what pdfplumber yields for the file, page by page
  pc,             \* the position in pdf_to_csv
  entered,        \* the stages entered so far, in order
  calls,          \* clean_df, parse_text_to_csv, parse_with_llm as invoked
  raised,         \* an exception reached the except clause
  full_text,      \* the local full_text
  csv_from_text,  \* the local csv_from_text
  result          \* the value returned

pipeVars ==
  <<file_path, exists, pages, pc, entered, calls, raised, full_text,
    csv_from_text, result>>

UpperCase ==
  <<"A", "B", "C", "D", "E", "F", "G", "H", "I", "J", "K", "L", "M",
    "N", "O", "P", "Q", "R", "S", "T", "U", "V", "W", "X", "Y", "Z">>

LowerCase ==
  <<"a", "b", "c", "d", "e", "f", "g", "h", "i", "j", "k", "l", "m",
    "n", "o", "p", "q", "r", "s", "t", "u", "v", "w", "x", "y", "z">>

\* s.lower()
lower(s) ==
  [i \in 1..Len(s) |->
     IF \E k \in 1..26 : UpperCase[k] = s[i]
     THEN LowerCase[CHOOSE k \in 1..26 : UpperCase[k] = s[i]] ELSE s[i]]

\* s.endswith(suffix)
endswith(s, suffix) ==
  Len(s) >= Len(suffix) /\ SubSeq(s, Len(s) - Len(suffix) + 1, Len(s)) = suffix

\* InputError without the check of the extension
InputErrorNoExtension(path, ex) == ~ex

\* the two checks that raise FileNotFoundError and ValueError
InputError(path, ex) ==
  ~ex \/ ~endswith(lower(path), <<".", "p", "d", "f">>)

\* if len(combined_df) > 5
MinTableRows == 5

\* if len(df) > 3
MinTextRows == 3

\* TableAccepted with the threshold one too high
TableAcceptedAboveSix(df) == Len(df) > MinTableRows + 1

TableAccepted(df) == Len(df) > MinTableRows

\* TextAccepted with >= in the place of >
TextAcceptedAtThree(csv) == csv # None /\ ReadCsvLen(csv) >= MinTextRows

TextAccepted(csv) == csv # None /\ ReadCsvLen(csv) > MinTextRows

\* table[1:] of every page with "table and len(table) > 1", in page order;
\* the tables of one document have the same header, so that pd.concat puts
\* the rows one below the other
RECURSIVE TableRows(_)
TableRows(ps) ==
  IF ps = <<>> THEN <<>>
  ELSE (IF Len(Head(ps).table) > 1 THEN Tail(Head(ps).table) ELSE <<>>)
       \o TableRows(Tail(ps))

\* "if tables": some page gave a table of more than one row
HasTables(ps) == \E i \in 1..Len(ps) : Len(ps[i].table) > 1

\* the text to_csv writes for a cell
CellStr(cell) ==
  IF cell.k = "str" THEN cell.s ELSE IF cell.k = "num" THEN FloatStr(cell.v) ELSE <<>>

CsvCells(row) == [c \in 1..Len(row) |-> CellStr(row[c])]

\* combined_df.to_csv(index=False): the header, then the rows
TableCsv(header, df) ==
  <<CsvCells(header)>> \o [r \in 1..Len(df) |-> CsvCells(df[r])]

FirstHeader(ps) == ps[CHOOSE i \in 1..Len(ps) : Len(ps[i].table) > 1].table[1]

\* full_text += page.extract_text(layout=True) or "" + "\n", page by page: the
\* operator + binds tighter than or, the newline follows an empty text only
RECURSIVE ExtractText(_)
ExtractText(ps) ==
  IF ps = <<>> THEN <<>>
  ELSE (IF Head(ps).text # <<>> THEN Head(ps).text ELSE <<"\n">>)
       \o ExtractText(Tail(ps))

ResultNone == [kind |-> "none"]

\* the documents: what the PDF component yields for a page
TxtDetalle ==
  <<"D", "e", "t", "a", "l", "l", "e">>
TxtImporte ==
  <<"I", "m", "p", "o", "r", "t", "e">>
Txt1250 ==
  <<"1", "2", ",", "5", "0">>
LineTx ==
  <<"1", "5", " ", "0", "3", " ", "2", "4", " ", "1", "2", "3", "4", " ",
    "N", "E", "T", "F", "L", "I", "X", ".", "C", "O", "M", " ", " ", " ",
    " ", "1", ".", "5", "0", "0", ",", "0", "0">>
LineSaldo ==
  <<"S", "A", "L", "D", "O", " ", "C", "O", "N", "T", "A", "D", "O", " ",
    " ", " ", " ", "1", ".", "5", "0", "0", ",", "0", "0", " ", " ", " ",
    " ", "-", "1", "2", ",", "0", "0">>
LineJunk ==
  <<"I", "T", "A", "U">>
PathPdf ==
  <<"d", "o", "c", ".", "p", "d", "f">>
PathUpper ==
  <<"D", "O", "C", ".", "P", "D", "F">>
PathTxt ==
  <<"d", "o", "c", ".", "t", "x", "t">>
ReplyCsv ==
  <<" ", "F", "e", "c", "h", "a", ",", "T", "i", "p", "o">>

\* most pages of a document
MaxPages == 2

HeaderRow == <<Str(TxtDetalle), Str(TxtImporte)>>
GoodRow == <<Str(TxtNetflix), Str(Txt1250)>>
NoiseRow == <<NA, Str(<<>>)>>

Rows(n, row) == [i \in 1..n |-> row]

\* page.extract_table(): None (the empty grid), a header alone, 3 rows, or 5
\* rows and one row of noise
PageTables ==
  {<<>>, <<HeaderRow>>, <<HeaderRow>> \o Rows(3, GoodRow),
   <<HeaderRow>> \o Rows(5, GoodRow) \o <<NoiseRow>>}

\* page.extract_text(layout=True): None or the lines of the page
PageTexts ==
  {<<>>, LineJunk, LineTx, join(<<LineTx, LineSaldo, LineTx>>),
   join(<<LineTx, LineTx, LineSaldo, LineTx>>)}

PageChoices == [table : PageTables, text : PageTexts]

Documents == UNION {[1..n -> PageChoices] : n \in 0..MaxPages}

FilePaths == {PathPdf, PathUpper, PathTxt}

\* response.choices[0].message.content: None or a text
LlmReplies == {<<>>, ReplyCsv \o <<"\n">>}

Stages == <<"TABLE", "TEXT", "LLM">>

StageOf(p) == CASE p = "table" -> "TABLE" [] p = "text" -> "TEXT" [] p = "llm" -> "LLM"

StageCall(p) ==
  CASE p = "table" -> "clean_df" [] p = "text" -> "parse_text_to_csv"
    [] p = "llm" -> "parse_with_llm"

\* the state of parse_line, parse_text_to_csv and clean_df applied alone
VARIABLES
  parts,      \* the columns the line is made of
  line,       \* the argument of parse_line
  parsed,     \* what parse_line returned
  lineDone,   \* parse_line has returned
  text,       \* the argument of parse_text_to_csv
  csv,        \* what parse_text_to_csv returned
  textDone,   \* parse_text_to_csv has returned
  df,         \* the argument of clean_df
  coerced,    \* df after the loop over numeric_cols
  cleaned,    \* what clean_df returned
  cleanDone   \* clean_df has returned

lineVars == <<parts, line, parsed, lineDone>>
textVars == <<text, csv, textDone>>
cleanVars == <<df, coerced, cleaned, cleanDone>>
vars == <<pipeVars, lineVars, textVars, cleanVars>>
\* what a step of pdf_to_csv leaves alone
idleVars == <<lineVars, textVars, cleanVars>>

PipeInit ==
  /\ file_path \in FilePaths
  /\ exists \in BOOLEAN
  /\ pages \in (IF exists THEN Documents ELSE {<<>>})
  /\ pc = "start"
  /\ entered = <<>>
  /\ calls = <<>>
  /\ raised = FALSE
  /\ full_text = <<>>
  /\ csv_from_text = None
  /\ result = ResultNone

\* the two checks at the head of the try block
Validate ==
  /\ pc = "start"
  /\ IF InputError(file_path, exists)
     THEN pc' = "done" /\ raised' = TRUE
     ELSE pc' = "table" /\ raised' = FALSE
  /\ UNCHANGED <<file_path, exists, pages, entered, calls, full_text,
                 csv_from_text, result, idleVars>>

\* with pdfplumber.open(file_path) as pdf: ...
TableStage ==
  /\ pc = "table"
  /\ entered' = Append(entered, "TABLE")
  /\ IF HasTables(pages)
     THEN LET combined_df == clean_df(TableRows(pages))
          IN  /\ calls' = Append(calls, "clean_df")
              /\ IF TableAccepted(combined_df)
                 THEN /\ result' = [kind |-> "table",
                                    csv |-> TableCsv(FirstHeader(pages), combined_df)]
                      /\ pc' = "done"
                 ELSE /\ result' = result
                      /\ pc' = "text"
     ELSE /\ calls' = calls
          /\ result' = result
          /\ pc' = "text"
  /\ UNCHANGED <<file_path, exists, pages, raised, full_text, csv_from_text,
                 idleVars>>

\* Fallback 1
TextStage ==
  /\ pc = "text"
  /\ entered' = Append(entered, "TEXT")
  /\ calls' = Append(calls, "parse_text_to_csv")
  /\ full_text' = ExtractText(pages)
  /\ csv_from_text' = parse_text_to_csv(full_text')
  /\ IF TextAccepted(csv_from_text')
     THEN result' = [kind |-> "text", csv |-> csv_from_text'] /\ pc' = "done"
     ELSE result' = result /\ pc' = "llm"
  /\ UNCHANGED <<file_path, exists, pages, raised, idleVars>>

\* Fallback 2: return content.strip() if content else ""
LlmStage ==
  /\ pc = "llm"
  /\ entered' = Append(entered, "LLM")
  /\ calls' = Append(calls, "parse_with_llm")
  /\ \E content \in LlmReplies :
       result' = [kind |-> "llm", content |-> strip(content)]
  /\ pc' = "done"
  /\ UNCHANGED <<file_path, exists, pages, raised, full_text, csv_from_text,
                 idleVars>>

\* except Exception: return None.  A call of a stage raises: pdfplumber on a
\* damaged file or, in the text stage, on the document the with block has
\* closed; pandas; the client of the LLM.  The function of the stage may or
\* may not have been called by then.
StageRaises ==
  /\ pc \in {"table", "text", "llm"}
  /\ entered' = Append(entered, StageOf(pc))
  /\ calls' \in {calls, Append(calls, StageCall(pc))}
  /\ raised' = TRUE
  /\ result' = ResultNone
  /\ pc' = "done"
  /\ UNCHANGED <<file_path, exists, pages, full_text, csv_from_text, idleVars>>

(***************************************************************************)
(* parse_line, parse_text_to_csv and clean_df applied to bounded inputs.   *)
(***************************************************************************)

LineDatedNoAmount ==
  <<"1", "5", " ", "0", "3", " ", "2", "4", " ", "1", "2", "3", "4", " ",
    "N", "E", "T", "F", "L", "I", "X", ".", "C", "O", "M">>
LineTxNoCode ==
  <<"1", "5", " ", "0", "3", " ", "2", "4", " ", " ", "S", "H", "O", "P",
    " ", "3", "/", "6", " ", " ", " ", " ", "-", "1", "2", ",", "0", "0">>
Txt123456 ==
  <<"1", ".", "2", "3", "4", ",", "5", "6">>
TxtAbc ==
  <<"a", "b", "c">>
TxtMinus7 ==
  <<"-", "7">>

\* most lines of a text given to parse_text_to_csv
MaxLines == 4

\* most rows of a data frame given to clean_df
MaxRows == 2

TextLines == {LineTx, LineTxNoCode, LineSaldo, LineDatedNoAmount, LineJunk, Blanks(2)}

Texts == {join(ls) : ls \in UNION {[1..n -> TextLines] : n \in 0..MaxLines}}

\* the cells of a page's grid: texts and None
CleanCells == {Str(Txt1250), Str(Txt123456), Str(TxtAbc), Str(TxtMinus7), Str(<<>>), NA}

Frames == UNION {[1..n -> [1..2 -> CleanCells]] : n \in 1..MaxRows}

PipeIdle ==
  /\ file_path = PathPdf /\ exists = FALSE /\ pages = <<>> /\ pc = "idle"
  /\ entered = <<>> /\ calls = <<>> /\ raised = FALSE /\ full_text = <<>>
  /\ csv_from_text = None /\ result = ResultNone

LineIdle == parts = <<>> /\ line = <<>> /\ parsed = NoMatch /\ lineDone = FALSE

TextIdle == text = <<>> /\ csv = None /\ textDone = FALSE

CleanIdle == df = <<>> /\ coerced = <<>> /\ cleaned = <<>> /\ cleanDone = FALSE

(***************************************************************************)
(* The specifications.                                                     *)
(***************************************************************************)
\* pdf_to_csv on a document
Init == PipeInit /\ LineIdle /\ TextIdle /\ CleanIdle

Next == Validate \/ TableStage \/ TextStage \/ LlmStage \/ StageRaises

Spec == Init /\ [][Next]_vars

\* parse_line on a line
LineInit ==
  /\ parts \in LineParts
  /\ line = BuildLine(parts)
  /\ parsed = NoMatch
  /\ lineDone = FALSE
  /\ PipeIdle /\ TextIdle /\ CleanIdle

ParseLine ==
  /\ ~lineDone
  /\ parsed' = parse_line(line)
  /\ lineDone' = TRUE
  /\ UNCHANGED <<parts, line, pipeVars, textVars, cleanVars>>

LineNext == ParseLine

SpecLine == LineInit /\ [][LineNext]_vars

\* parse_text_to_csv on a text
TextInit ==
  /\ text \in Texts
  /\ csv = None
  /\ textDone = FALSE
  /\ PipeIdle /\ LineIdle /\ CleanIdle

ParseText ==
  /\ ~textDone
  /\ csv' = parse_text_to_csv(text)
  /\ textDone' = TRUE
  /\ UNCHANGED <<text, pipeVars, lineVars, cleanVars>>

TextNext == ParseText

SpecText == TextInit /\ [][TextNext]_vars

\* clean_df on a data frame
CleanInit ==
  /\ df \in Frames
  /\ coerced = <<>>
  /\ cleaned = <<>>
  /\ cleanDone = FALSE
  /\ PipeIdle /\ LineIdle /\ TextIdle

CleanDf ==
  /\ ~cleanDone
  /\ coerced' = CoerceColumns(df)
  /\ cleaned' = clean_df(df)
  /\ cleanDone' = TRUE
  /\ UNCHANGED <<df, pipeVars, lineVars, textVars>>

CleanNext == CleanDf

SpecClean == CleanInit /\ [][CleanNext]_vars

(***************************************************************************)
(* Properties of pdf_to_csv (specification Spec).                          *)
(***************************************************************************)
\* the lines of t that parse_line classifies as records
RecordLines(t) == {i \in 1..Len(split(t)) : parse_line(split(t)[i]).ok}

\* the table / text stage has run to its end without raising
TableRan == entered # <<>> /\ ~(raised /\ Len(entered) = 1)
TextRan == Len(entered) >= 2 /\ ~(raised /\ Len(entered) = 2)

\* C1: the stages are entered in the order TABLE, TEXT, LLM, each at most
\* once, and a stage only after the earlier ones did not succeed; a cleaned
\* table of more than 5 rows ends the run with the table CSV, parse_text_to_csv
\* and parse_with_llm never invoked; after a table stage that did not succeed,
\* a text of more than 3 records ends the run with the text CSV, parse_with_llm
\* never invoked.
C1_StageOrder ==
  /\ \E n \in 0..3 : entered = SubSeq(Stages, 1, n)
  /\ result.kind = "table" => entered = <<"TABLE">>
  /\ result.kind = "text" => entered = <<"TABLE", "TEXT">>
  /\ (TableRan /\ HasTables(pages) /\ Len(clean_df(TableRows(pages))) > 5)
       => /\ pc = "done"
          /\ result = [kind |-> "table",
                       csv |-> TableCsv(FirstHeader(pages), clean_df(TableRows(pages)))]
          /\ Len(result.csv) > 6
          /\ entered = <<"TABLE">>
          /\ calls = <<"clean_df">>
  /\ (TextRan /\ Cardinality(RecordLines(full_text)) > 3)
       => /\ pc = "done"
          /\ result = [kind |-> "text", csv |-> csv_from_text]
          /\ Len(result.csv) = Cardinality(RecordLines(full_text)) + 1
          /\ entered = <<"TABLE", "TEXT">>
          /\ \A i \in 1..Len(calls) : calls[i] # "parse_with_llm"

\* a table was found but had too few rows, and the text stage then succeeded
C1_Witness ==
  /\ pc = "done"
  /\ HasTables(pages)
  /\ result.kind = "text"
  /\ entered = <<"TABLE", "TEXT">>
  /\ Cardinality(RecordLines(full_text)) > 3

\* C2: the text stage succeeds exactly when more than 3 lines are records:
\* with exactly 3, parse_text_to_csv returns a CSV but the LLM stage is
\* entered; with 4 or more the text CSV is returned; with 0 to 2,
\* parse_text_to_csv returns None and the LLM stage is entered; a run fails
\* only when an exception was raised, never for too few rows or records.
C2_TextThreshold ==
  /\ TextRan =>
       LET n == Cardinality(RecordLines(full_text))
           toLlm == pc = "llm" \/ (Len(entered) = 3 /\ entered[3] = "LLM")
       IN  /\ n >= 4 => /\ result = [kind |-> "text", csv |-> csv_from_text]
                        /\ pc = "done" /\ Len(entered) = 2
           /\ n = 3 => csv_from_text # None /\ Len(csv_from_text) = 4 /\ toLlm
           /\ n <= 2 => csv_from_text = None /\ toLlm
           /\ (result.kind = "text") = (n > 3)
  /\ (pc = "done" /\ result = ResultNone) => raised

\* exactly 3 records: a CSV came back from parse_text_to_csv and the LLM ran
C2_Witness ==
  /\ TextRan
  /\ Cardinality(RecordLines(full_text)) = 3
  /\ csv_from_text # None
  /\ entered = <<"TABLE", "TEXT", "LLM">>
  /\ result.kind = "llm"

\* C3: a path that does not exist or does not end in .pdf, whatever the
\* case, ends the run with no result and no stage entered; an exception in
\* any stage ends the run with no result, and nothing is entered afterwards.
C3_AbortOnError ==
  /\ []((pc # "start" /\ (~exists \/ file_path = PathTxt))
          => (pc = "done" /\ result = ResultNone /\ entered = <<>> /\ calls = <<>>))
  /\ [](raised => (pc = "done" /\ result = ResultNone))
  /\ [][raised => UNCHANGED <<entered, calls, result, pc>>]_vars

\* a file that exists and has pages, but whose name does not end in .pdf
C3_Witness ==
  /\ pc = "done" /\ raised /\ exists /\ file_path = PathTxt
  /\ Len(pages) > 0 /\ entered = <<>>

(***************************************************************************)
(* Properties of parse_line (specification SpecLine).                      *)
(***************************************************************************)
Fecha150324 == <<"1", "5", "/", "0", "3", "/", "2", "4">>
Codigo1234 == <<"1", "2", "3", "4">>
Cuotas3de6 == <<"3", "/", "6">>
Cuotas2de12 == <<"2", "/", "1", "2">>

\* the line as parse_line sees it has at least 20 characters
LongEnough == Len(rstrip(line)) >= 20

\* the line starts with a date dd dd dd
StartsWithDate == parts.date # <<>>

\* the values, in hundredths, of the tokens of AmountPool
PoolValues == <<150000, -1200, 500, 123456789>>

\* the value of the i-th amount column of a line
ColumnValue(i) == PoolValues[((i - 1) % 4) + 1]

\* C4: a line of at least 20 characters that contains SALDO CONTADO and starts
\* with a transaction date is classified as Balance (Tipo Saldo), never as a
\* Transaction: the record made of such a line, here one without the marker
\* of an earlier rule, is a Saldo.
C4_SaldoContadoBeforeTransaction ==
  (/\ lineDone /\ LongEnough /\ StartsWithDate
   /\ Contains(line, MarkSaldoContado) /\ ~Contains(line, MarkPagos)
   /\ parsed.ok)
    => parsed.Tipo = "Saldo"

\* C5: a line that contains a special marker without meeting the requirements
\* of that marker's rule (two numeric tokens; for PAGOS also a date) yields no
\* match: no later rule makes a record of it.
C5_UnmetMarkerIsNoMatch ==
  (/\ lineDone
   /\ \/ parts.n < 2 /\ \E m \in {MarkSaldoAnterior, MarkPagos, MarkSeguro, MarkSaldoContado} :
                          Contains(line, m)
      \/ ~StartsWithDate /\ Contains(line, MarkPagos))
    => ~parsed.ok

\* C6: a line of at least 20 characters without a special marker, made of a
\* date, an optional 4-digit code, a description, then at least 4 blanks and a
\* numeric token, is a Transaction with the date dd/dd/dd, the code or the empty
\* code, and the description without its installment marker, which is in
\* Cuotas; whatever the number (one or more) of blanks between the date, the
\* code and the description.
C6_GeneralTransaction ==
  (/\ lineDone /\ LongEnough /\ StartsWithDate
   /\ parts.desc \in {TxtNetflix, TxtShopCuotas, TxtCuotasTwice}
   /\ parts.gap >= 4 /\ parts.n >= 1)
    => /\ parsed.ok
       /\ parsed.Tipo = "Transaccion"
       /\ parsed.Fecha = Fecha150324
       /\ parsed.Codigo = (IF parts.code = <<>> THEN <<>> ELSE Codigo1234)
       /\ parts.desc = TxtNetflix => parsed.Descripcion = TxtNetflix /\ parsed.Cuotas = <<>>
       /\ parts.desc = TxtShopCuotas =>
            parsed.Cuotas = Cuotas3de6 /\ ~Contains(parsed.Descripcion, Cuotas3de6)
       /\ parts.desc = TxtCuotasTwice =>
            parsed.Cuotas = Cuotas2de12 /\ ~Contains(parsed.Descripcion, Cuotas2de12)

\* C7: Balance and Payment records take the second-to-last numeric token as
\* Monto_UYU and the last as Monto_USD; the insurance Charge takes the first
\* and the second; a Transaction takes the last token after the description
\* as Monto_UYU and the one before it, if any, as Monto_USD, which is otherwise
\* absent and written as the empty string.
C7_AmountSelection ==
  (lineDone /\ parsed.ok) =>
    LET n     == parts.n
        after == IF parts.gap >= 4 THEN n ELSE n - 1
    IN  /\ parsed.Tipo \in {"Saldo", "Pago"} =>
             /\ n >= 2
             /\ parsed.Monto_UYU = ColumnValue(n - 1)
             /\ parsed.Monto_USD = <<ColumnValue(n)>>
        /\ parsed.Tipo = "Cargo" =>
             /\ n >= 2
             /\ parsed.Monto_UYU = ColumnValue(1)
             /\ parsed.Monto_USD = <<ColumnValue(2)>>
        /\ parsed.Tipo = "Transaccion" =>
             /\ after >= 1
             /\ parsed.Monto_UYU = ColumnValue(n)
             /\ parsed.Monto_USD = (IF after >= 2 THEN <<ColumnValue(n - 1)>> ELSE <<>>)
             /\ after = 1 => CsvRow(parsed)[6] = <<>>
             /\ after >= 2 => CsvRow(parsed)[6] # <<>>

\* an insurance charge on a line of three amounts: the first two are taken
C7_Witness ==
  /\ lineDone /\ parsed.ok /\ parsed.Tipo = "Cargo" /\ parts.n = 3
  /\ parsed.Monto_UYU = 150000 /\ parsed.Monto_USD = <<-1200>>

(***************************************************************************)
(* Properties of parse_text_to_csv (specification SpecText).               *)
(***************************************************************************)
\* the k-th smallest element of a set of numbers
Kth(S, k) == CHOOSE i \in S : Cardinality({j \in S : j < i}) = k - 1

\* the line starts with a date and holds no numeric token
DatedWithoutAmount(l) ==
  /\ DateAt(l, SkipSpaces(l, 1)) # <<>>
  /\ \A p \in 1..Len(l) : NumMatchEnd(l, p) = 0

\* C8: every record has a kind among Saldo, Pago, Cargo, Transaccion and a
\* numeric Monto_UYU; a dated line with a description and no numeric token
\* gives no record; the rows of the CSV are the records of the matched lines,
\* one for each, in the order of the lines.
C8_RecordInvariant ==
  textDone =>
    LET ls  == split(text)
        idx == RecordLines(text)
    IN  /\ \A i \in 1..Len(ls) : DatedWithoutAmount(ls[i]) => i \notin idx
        /\ \A i \in idx :
             /\ parse_line(ls[i]).Tipo \in {"Saldo", "Pago", "Cargo", "Transaccion"}
             /\ parse_line(ls[i]).Monto_UYU \in Int
        /\ csv # None =>
             /\ Len(csv) = Cardinality(idx) + 1
             /\ csv[1] = Header
             /\ \A k \in 1..Cardinality(idx) :
                  /\ csv[k + 1] = CsvRow(parse_line(ls[Kth(idx, k)]))
                  /\ csv[k + 1][7] \in {"Saldo", "Pago", "Cargo", "Transaccion"}
                  /\ ParseFloat(csv[k + 1][5]) = <<parse_line(ls[Kth(idx, k)]).Monto_UYU>>

\* a CSV of records of different kinds, made from a text in which a dated
\* line without amount gave no record
C8_Witness ==
  /\ textDone /\ csv # None
  /\ \E i \in 1..Len(split(text)) : DatedWithoutAmount(split(text)[i])
  /\ csv[2][7] = "Transaccion" /\ csv[3][7] = "Saldo"

(***************************************************************************)
(* Properties of clean_df (specification SpecClean).                       *)
(***************************************************************************)
\* column c of the frame holds a non-empty text that is no numeric token
HasOtherText(c) ==
  \E r \in 1..Len(df) :
    df[r][c].k = "str" /\ df[r][c].s # <<>> /\ ~LooksNumeric(df[r][c].s)

\* C9: a column in which some non-empty value is no numeric token is left
\* unchanged: none of its cells becomes a missing value, and no row is dropped
\* by the filter of fewer than 2 non-missing values because of it.
C9_MixedColumnUnchanged ==
  cleanDone =>
    \A c \in 1..2 : HasOtherText(c) =>
      /\ \A r \in 1..Len(df) : coerced[r][c] = df[r][c]
      /\ \A r \in 1..Len(df) :
           (NonMissing(df[r]) >= 2 /\ \A c2 \in 1..2 \ {c} : coerced[r][c2].k # "na")
             => \E k \in 1..Len(cleaned) : cleaned[k] = coerced[r]

\* C10: the coercion keeps the value of the token: 12,50 becomes 12.5 and
\* 1.234,56 becomes 1234.56, the value the normalizer of parse_line gives.
C10_CoercionKeepsValue ==
  cleanDone =>
    \A r \in 1..Len(df) : \A c \in 1..2 :
      (df[r][c].k = "str" /\ coerced[r][c].k = "num") =>
        /\ df[r][c].s = Txt1250 => coerced[r][c].v = 1250
        /\ df[r][c].s = Txt123456 => coerced[r][c].v = 123456
        /\ NumMatchEnd(df[r][c].s, 1) = Len(df[r][c].s) + 1
             => coerced[r][c].v = Amount(df[r][c].s)
====
